---- MODULE Spec2Model ----
(***************************************************************************)
(* compass: the rule-matching and scoring engine of src/analyzer.rs.       *)
(*                                                                         *)
(* A CodeAnalyzer holds an ordered rule list.  analyze runs every rule's   *)
(* query through the pattern engine and turns every captured node into an  *)
(* issue; calculate_score reduces the issue list and the line count of the *)
(* source into a CodeScore.                                                *)
(*                                                                         *)
(* Numbers.  The code computes in f64.  Finite values are modelled as      *)
(* exact decimals in a fixed unit per quantity (weights in tenths,         *)
(* score_impact and deductions in hundredths, size_bonus in 1/100000,      *)
(* scores in hundredths); the non-finite values a weight can carry         *)
(* (NaN, +inf, -inf) are modelled as such and propagate as IEEE-754 has    *)
(* them propagate.  Binary rounding error of finite values is not          *)
(* modelled.                                                               *)
(***************************************************************************)
EXTENDS Integers, Sequences, FiniteSets, TLC

VARIABLES rules, last, scored, cli

vars == <<rules, last, scored, cli>>

\* Longest rule list the model builds.
MaxRules == 2

\* Longest issue list calculate_score is applied to on its own.
MaxIssues == 3

-----------------------------------------------------------------------------
(* f64 values *)

Fin(n) == [k |-> "fin", v |-> n]
PosInf == [k |-> "inf", v |-> 1]
NegInf == [k |-> "inf", v |-> -1]
NaN == [k |-> "nan", v |-> 0]

Sign(n) == IF n > 0 THEN 1 ELSE IF n < 0 THEN -1 ELSE 0
AbsInt(n) == IF n < 0 THEN -n ELSE n
MinInt(a, b) == IF a < b THEN a ELSE b
MaxInt(a, b) == IF a > b THEN a ELSE b

\* c * x for a finite c (the product's unit is the product of the units).
FMul(c, x) ==
    CASE x.k = "fin" -> Fin(c * x.v)
      [] x.k = "inf" -> IF c = 0 THEN NaN ELSE [k |-> "inf", v |-> Sign(c) * x.v]
      [] OTHER -> NaN

\* f64::abs
FAbs(x) ==
    CASE x.k = "fin" -> Fin(AbsInt(x.v))
      [] x.k = "inf" -> PosInf
      [] OTHER -> NaN

\* x + y, both in the same unit.
FAdd(x, y) ==
    CASE x.k = "nan" \/ y.k = "nan" -> NaN
      [] x.k = "inf" /\ y.k = "inf" -> IF x.v = y.v THEN x ELSE NaN
      [] x.k = "inf" -> x
      [] y.k = "inf" -> y
      [] OTHER -> Fin(x.v + y.v)

\* x < y of f64: false as soon as one side is NaN.
FLt(x, y) ==
    CASE x.k = "nan" \/ y.k = "nan" -> FALSE
      [] x.k = "inf" /\ y.k = "inf" -> x.v < y.v
      [] x.k = "inf" -> x.v < 0
      [] y.k = "inf" -> y.v > 0
      [] OTHER -> x.v < y.v

\* x <= y of f64: false as soon as one side is NaN.
FLeq(x, y) ==
    CASE x.k = "nan" \/ y.k = "nan" -> FALSE
      [] x.k = "inf" /\ y.k = "inf" -> x.v <= y.v
      [] x.k = "inf" -> x.v < 0
      [] y.k = "inf" -> y.v > 0
      [] OTHER -> x.v <= y.v

-----------------------------------------------------------------------------
(* Severity, rules *)

Severity == {"Error", "Warning", "Info", "Style"}

\* Severity::base_score_impact, in tenths.
base_score_impact(sev) ==
    CASE sev = "Error" -> -30
      [] sev = "Warning" -> -15
      [] sev = "Info" -> -4
      [] sev = "Style" -> -2

\* The weights a rule is configured with (RuleConfig.weight: f64, passed on
\* unchecked by with_weight), in tenths: -1.0, 0.5, 1.0 (default_weight), nan, inf.
Weights == {Fin(-10), Fin(5), Fin(10), NaN, PosInf}

\* Query strings, named by what the pattern engine does with them.
Queries == {"bad", "none", "each", "twice", "rev"}

\* AnalysisRule::new(...).with_weight(w)
AnalysisRule(name, query, severity, weight) ==
    [name |-> name, query |-> query, severity |-> severity,
     weight_multiplier |-> weight]

\* The rules the model adds: every severity and weight on the one-capture
\* query, the other queries at the default weight, and a Style rule of
\* weight 0.1.
RuleCatalogue ==
    {AnalysisRule(<<"each", s, w>>, "each", s, w) : s \in Severity, w \in Weights}
    \cup
    {AnalysisRule(<<q, s, Fin(10)>>, q, s, Fin(10)) :
        q \in {"twice", "rev"}, s \in {"Warning", "Info"}}
    \cup
    {AnalysisRule(<<q, "Error", Fin(10)>>, q, "Error", Fin(10)) : q \in {"bad", "none"}}
    \cup
    {AnalysisRule(<<"each", "Style", Fin(1)>>, "each", "Style", Fin(1))}

-----------------------------------------------------------------------------
(* Sources and the pattern engine *)

\* A source text: its number of lines (source_code.lines().count()) and the
\* number of nodes of its tree the queries of the model can capture, node n
\* being the n-th in document order.
Sources ==
    {[lines |-> 0, nodes |-> 0], [lines |-> 49, nodes |-> 3],
     [lines |-> 50, nodes |-> 2], [lines |-> 100, nodes |-> 0],
     [lines |-> 100, nodes |-> 1], [lines |-> 100, nodes |-> 6],
     [lines |-> 200, nodes |-> 11], [lines |-> 201, nodes |-> 5],
     [lines |-> 350, nodes |-> 4], [lines |-> 1200, nodes |-> 5]}

\* node.start_position() of node n: 0-based row and column.
start_position(src, n) ==
    [row |-> n - 1, column |-> (3 * n) % 5]

\* Query::new fails on a query that is malformed for the grammar.
QueryNew(query) == IF query = "bad" THEN [tag |-> "Err"] ELSE [tag |-> "Ok"]

\* cursor.matches: the matches in the order the engine yields them, each a
\* sequence of captured nodes.
Matches(query, src) ==
    CASE query = "each" -> [i \in 1..src.nodes |-> <<i>>]
      [] query = "twice" -> [i \in 1..src.nodes |-> <<i, i>>]
      [] query = "rev" -> [i \in 1..src.nodes |-> <<src.nodes + 1 - i>>]
      [] OTHER -> <<>>

-----------------------------------------------------------------------------
(* CodeAnalyzer::analyze *)

Ok(val) == [tag |-> "Ok", val |-> val]
Err == [tag |-> "Err"]

\* The AnalysisResult pushed for one captured node.
AnalysisResult(rule, src, node) ==
    LET start == start_position(src, node)
        score_impact == FMul(base_score_impact(rule.severity), rule.weight_multiplier)
    IN  [rule_name |-> rule.name,
         severity |-> rule.severity,
         line |-> start.row + 1,
         column |-> start.column + 1,
         text |-> node,
         score_impact |-> score_impact]

\* for capture in match_.captures { results.push(...) }
RECURSIVE CaptureLoop(_, _, _, _, _)
CaptureLoop(rule, src, captures, j, results) ==
    IF j > Len(captures) THEN results
    ELSE CaptureLoop(rule, src, captures, j + 1,
                     Append(results, AnalysisResult(rule, src, captures[j])))

\* while let Some(match_) = matches.next() { ... }
RECURSIVE MatchLoop(_, _, _, _, _)
MatchLoop(rule, src, matches, i, results) ==
    IF i > Len(matches) THEN results
    ELSE MatchLoop(rule, src, matches, i + 1,
                   CaptureLoop(rule, src, matches[i], 1, results))

\* The body of `for rule in &self.rules`, skipping a rule whose query fails.
RuleStepSkipBad(rule, src, results) ==
    IF QueryNew(rule.query).tag = "Err" THEN Ok(results)
    ELSE Ok(MatchLoop(rule, src, Matches(rule.query, src), 1, results))

\* The body of `for rule in &self.rules`: Query::new(...)? returns the error
\* from analyze, and with it drops `results`.
RuleStep(rule, src, results) ==
    IF QueryNew(rule.query).tag = "Err" THEN Err
    ELSE Ok(MatchLoop(rule, src, Matches(rule.query, src), 1, results))

\* for rule in &self.rules { ... }, left at the first error.
RECURSIVE RuleLoop(_, _, _, _)
RuleLoop(rs, src, i, acc) ==
    IF acc.tag = "Err" \/ i > Len(rs) THEN acc
    ELSE RuleLoop(rs, src, i + 1, RuleStep(rs[i], src, acc.val))

analyze(rs, src) == RuleLoop(rs, src, 1, Ok(<<>>))

-----------------------------------------------------------------------------
(* CodeAnalyzer::calculate_score *)

\* The ScoreBreakdown calculate_score starts from.
ZeroBreakdown ==
    [errors |-> 0, warnings |-> 0, info_issues |-> 0, style_issues |-> 0,
     error_deduction |-> Fin(0), warning_deduction |-> Fin(0),
     info_deduction |-> Fin(0), style_deduction |-> Fin(0),
     size_bonus |-> Fin(0)]

\* The match on result.severity, adding the signed score_impact.
TallySigned(b, result) ==
    CASE result.severity = "Error" ->
            [b EXCEPT !.errors = @ + 1,
                      !.error_deduction = FAdd(@, result.score_impact)]
      [] result.severity = "Warning" ->
            [b EXCEPT !.warnings = @ + 1,
                      !.warning_deduction = FAdd(@, result.score_impact)]
      [] result.severity = "Info" ->
            [b EXCEPT !.info_issues = @ + 1,
                      !.info_deduction = FAdd(@, result.score_impact)]
      [] result.severity = "Style" ->
            [b EXCEPT !.style_issues = @ + 1,
                      !.style_deduction = FAdd(@, result.score_impact)]

\* The match on result.severity, counting Style issues as Info issues.
TallyMerged(b, result) ==
    CASE result.severity = "Error" ->
            [b EXCEPT !.errors = @ + 1,
                      !.error_deduction = FAdd(@, FAbs(result.score_impact))]
      [] result.severity = "Warning" ->
            [b EXCEPT !.warnings = @ + 1,
                      !.warning_deduction = FAdd(@, FAbs(result.score_impact))]
      [] result.severity = "Info" ->
            [b EXCEPT !.info_issues = @ + 1,
                      !.info_deduction = FAdd(@, FAbs(result.score_impact))]
      [] result.severity = "Style" ->
            [b EXCEPT !.info_issues = @ + 1,
                      !.style_deduction = FAdd(@, FAbs(result.score_impact))]

\* The match on result.severity: one count and one deduction per issue.
Tally(b, result) ==
    CASE result.severity = "Error" ->
            [b EXCEPT !.errors = @ + 1,
                      !.error_deduction = FAdd(@, FAbs(result.score_impact))]
      [] result.severity = "Warning" ->
            [b EXCEPT !.warnings = @ + 1,
                      !.warning_deduction = FAdd(@, FAbs(result.score_impact))]
      [] result.severity = "Info" ->
            [b EXCEPT !.info_issues = @ + 1,
                      !.info_deduction = FAdd(@, FAbs(result.score_impact))]
      [] result.severity = "Style" ->
            [b EXCEPT !.style_issues = @ + 1,
                      !.style_deduction = FAdd(@, FAbs(result.score_impact))]

\* for result in results { ... }
RECURSIVE TallyLoop(_, _, _)
TallyLoop(results, i, b) ==
    IF i > Len(results) THEN b
    ELSE TallyLoop(results, i + 1, Tally(b, results[i]))

\* total_deduction, in hundredths.
total_deduction(b) ==
    FAdd(FAdd(FAdd(b.error_deduction, b.warning_deduction), b.info_deduction),
         b.style_deduction)

\* leniency without the cap, in thousandths.
LeniencyUncapped(line_count) == line_count - 200

\* ((line_count as f64 - 200.0) / 1000.0).min(0.3), in thousandths.
Leniency(line_count) == MinInt(line_count - 200, 300)

\* size_factor with the small-file branch taken at 50 lines too.
size_factorSmallAt50(line_count) ==
    IF line_count > 200 THEN 1000 + Leniency(line_count)
    ELSE IF line_count <= 50 THEN 900
    ELSE 1000

\* size_factor with small files divided by 1.1 instead of 0.9.
size_factorSmallLenient(line_count) ==
    IF line_count > 200 THEN 1000 + Leniency(line_count)
    ELSE IF line_count < 50 THEN 1100
    ELSE 1000

\* size_factor, in thousandths.
size_factor(line_count) ==
    IF line_count > 200 THEN 1000 + Leniency(line_count)
    ELSE IF line_count < 50 THEN 900
    ELSE 1000

\* breakdown.size_bonus, in 1/100000: assigned only when line_count > 200.
size_bonus(b, line_count) ==
    IF line_count > 200
    THEN FMul(Leniency(line_count), FAdd(b.info_deduction, b.style_deduction))
    ELSE b.size_bonus

\* base_score - adjusted_deduction with no lower clamp.
OverallScoreNoClamp(total, factor) ==
    CASE total.k = "fin" -> [k |-> "fin", n |-> 10 * factor - 10 * total.v, d |-> factor]
      [] total.k = "inf" -> [k |-> "inf", n |-> -total.v, d |-> 1]
      [] OTHER -> [k |-> "nan", n |-> 0, d |-> 1]

\* (base_score - total_deduction / size_factor).max(0.0) as the fraction n/d;
\* f64::max returns the other argument when one is NaN.
OverallScore(total, factor) ==
    CASE total.k = "fin" ->
            [k |-> "fin", n |-> MaxInt(10 * factor - 10 * total.v, 0), d |-> factor]
      [] total.k = "inf" ->
            IF total.v > 0 THEN [k |-> "fin", n |-> 0, d |-> 1]
            ELSE [k |-> "inf", n |-> 1, d |-> 1]
      [] OTHER -> [k |-> "fin", n |-> 0, d |-> 1]

\* The score passed on unrounded, cut to hundredths.
RoundedScoreNone(x) ==
    IF x.k = "fin" THEN Fin((100 * x.n) \div x.d)
    ELSE [k |-> x.k, v |-> x.n]

\* overall_score.round(): the score rounded to a whole number.
RoundedScoreWhole(x) ==
    IF x.k = "fin"
    THEN Fin(Sign(x.n) * ((2 * AbsInt(x.n) + x.d) \div (2 * x.d)) * 100)
    ELSE [k |-> x.k, v |-> x.n]

\* (overall_score * 10.0).round() / 10.0, in hundredths; round() rounds half
\* away from zero.
RoundedScore(x) ==
    IF x.k = "fin"
    THEN LET half == (2 * 10 * AbsInt(x.n) + x.d) \div (2 * x.d)
         IN  Fin(Sign(x.n) * half * 10)
    ELSE [k |-> x.k, v |-> x.n]

-----------------------------------------------------------------------------
(* CodeAnalyzer::get_rating_and_summary *)

\* The range pattern lo..=hi on an f64, lo and hi in hundredths.
InRange(score, lo, hi) == FLeq(Fin(lo), score) /\ FLeq(score, Fin(hi))

\* let rating = match score { ... }
Rating(score) ==
    CASE InRange(score, 900, 1000) -> "Excellent"
      [] InRange(score, 750, 890) -> "Good"
      [] InRange(score, 600, 740) -> "Fair"
      [] InRange(score, 400, 590) -> "Poor"
      [] OTHER -> "Critical"

\* The if/else chain with the score tested before the counts.
SummaryScoreFirst(score, b) ==
    IF FLeq(Fin(900), score)
    THEN <<"Excellent code quality with minimal issues">>
    ELSE IF FLeq(Fin(750), score)
    THEN <<"Good code quality with room for minor improvements">>
    ELSE IF b.errors > 0
    THEN <<"Code has ", b.errors, " critical errors that need immediate attention">>
    ELSE IF b.warnings > 5
    THEN <<"Multiple warnings detected - consider addressing them">>
    ELSE IF b.info_issues > 10
    THEN <<"Many minor issues found - good opportunity for cleanup">>
    ELSE <<"Code needs improvement in several areas">>

\* let summary = if breakdown.errors > 0 { ... } else if ...
Summary(score, b) ==
    IF b.errors > 0
    THEN <<"Code has ", b.errors, " critical errors that need immediate attention">>
    ELSE IF b.warnings > 5
    THEN <<"Multiple warnings detected - consider addressing them">>
    ELSE IF b.info_issues > 10
    THEN <<"Many minor issues found - good opportunity for cleanup">>
    ELSE IF FLeq(Fin(900), score)
    THEN <<"Excellent code quality with minimal issues">>
    ELSE IF FLeq(Fin(750), score)
    THEN <<"Good code quality with room for minor improvements">>
    ELSE <<"Code needs improvement in several areas">>

\* calculate_score(results, source_code)
calculate_score(results, src) ==
    LET line_count == src.lines
        tallied == TallyLoop(results, 1, ZeroBreakdown)
        total == total_deduction(tallied)
        breakdown == [tallied EXCEPT !.size_bonus = size_bonus(tallied, line_count)]
        overall_score == OverallScore(total, size_factor(line_count))
        rounded_score == RoundedScore(overall_score)
    IN  [overall_score |-> rounded_score,
         max_score |-> Fin(1000),
         total_issues |-> Len(results),
         breakdown |-> breakdown,
         rating |-> Rating(rounded_score),
         summary |-> Summary(rounded_score, breakdown)]

\* analyze_with_score: the error of analyze is passed on by `?`.
analyze_with_score(rs, src) ==
    LET results == analyze(rs, src)
    IN  IF results.tag = "Err" THEN Err
        ELSE Ok([issues |-> results.val, score |-> calculate_score(results.val, src)])

-----------------------------------------------------------------------------
(* The analyzer as a state machine.  `rules` is CodeAnalyzer.rules; `last`  *)
(* is the analysis call that has returned and whose value the caller still  *)
(* holds, [op |-> "none"] when there is none.  The program is single-       *)
(* threaded: the caller takes the value before it calls the analyzer again. *)
(* `scored` and `cli` belong to the specifications further down and stay as *)
(* they are here.                                                           *)

\* self.rules with the rule put in front.
PushFront(rs, rule) == <<rule>> \o rs

\* self.rules.push(rule)
Push(rs, rule) == Append(rs, rule)

NoCall == [op |-> "none"]
NoScored == [results |-> <<>>]
NoCli == [pc |-> "off"]

\* CodeAnalyzer::new()
Init ==
    /\ rules = <<>>
    /\ last = NoCall
    /\ scored = NoScored
    /\ cli = NoCli

\* add_rule(rule)
AddRule(rule) ==
    /\ last = NoCall
    /\ Len(rules) < MaxRules
    /\ rules' = Push(rules, rule)
    /\ UNCHANGED <<last, scored, cli>>

\* analyze(source_code, language)
Analyze(src) ==
    /\ last = NoCall
    /\ last' = [op |-> "analyze", source |-> src, ret |-> analyze(rules, src)]
    /\ UNCHANGED <<rules, scored, cli>>

\* analyze_with_score(source_code, language)
AnalyzeWithScore(src) ==
    /\ last = NoCall
    /\ last' = [op |-> "analyze_with_score", source |-> src,
                ret |-> analyze_with_score(rules, src)]
    /\ UNCHANGED <<rules, scored, cli>>

\* The caller is done with the returned value.
Take ==
    /\ last # NoCall
    /\ last' = NoCall
    /\ UNCHANGED <<rules, scored, cli>>

Next ==
    \/ \E rule \in RuleCatalogue : AddRule(rule)
    \/ \E src \in Sources : Analyze(src)
    \/ \E src \in Sources : AnalyzeWithScore(src)
    \/ Take

Spec == Init /\ [][Next]_vars

-----------------------------------------------------------------------------
(* calculate_score on its own: `scored` is an issue list, the source it is  *)
(* scored against and the CodeScore calculate_score returns for them.  The  *)
(* list grows by one issue at a time, at any position.                      *)

\* The issues of the one-capture rules at the weights -1.0, 1.0 and nan.
ScoredIssues(src) ==
    {AnalysisResult(r, src, 1) :
        r \in {c \in RuleCatalogue :
                 c.query = "each" /\ c.weight_multiplier \in {Fin(-10), Fin(10), NaN}}}

InsertAt(seq, p, x) == SubSeq(seq, 1, p - 1) \o <<x>> \o SubSeq(seq, p, Len(seq))

Scored(results, src) ==
    [results |-> results, source |-> src, score |-> calculate_score(results, src)]

InitScore ==
    /\ rules = <<>>
    /\ last = NoCall
    /\ cli = NoCli
    /\ \E lc \in {src.lines : src \in Sources} :
          scored = Scored(<<>>, [lines |-> lc, nodes |-> 1])

\* calculate_score of the list with one more issue, the source unchanged.
AddIssue(issue, p) ==
    /\ Len(scored.results) < MaxIssues
    /\ scored' = Scored(InsertAt(scored.results, p, issue), scored.source)
    /\ UNCHANGED <<rules, last, cli>>

NextScore ==
    \E issue \in ScoredIssues(scored.source), p \in 1..(Len(scored.results) + 1) :
        AddIssue(issue, p)

SpecScore == InitScore /\ [][NextScore]_vars

-----------------------------------------------------------------------------
(* calculate_score of one issue list against sources of different lengths:  *)
(* besides growing, the list is scored again against a longer source.       *)

\* calculate_score of the same list against a source of lc lines.
SetLines(lc) ==
    /\ lc > scored.source.lines
    /\ scored' = Scored(scored.results, [scored.source EXCEPT !.lines = lc])
    /\ UNCHANGED <<rules, last, cli>>

NextLines ==
    \/ NextScore
    \/ \E lc \in {src.lines : src \in Sources} : SetLines(lc)

SpecLines == InitScore /\ [][NextLines]_vars

-----------------------------------------------------------------------------
(* cli::run, one step per check.  `cli` is the process: its inputs (the     *)
(* arguments and what the file system holds), its position, what it has     *)
(* loaded and what it has written to standard output and standard error.    *)

\* A [[rules]] entry of a config file.
RuleConfig(name, query, severity, enabled) ==
    [name |-> name, query |-> query, severity |-> severity,
     weight |-> Fin(10), enabled |-> enabled]

\* What a config text is to AnalyzerConfig::from_file / from_str: a file that
\* cannot be read, text that is not a config, or a config with its rules.
ConfigFiles ==
    {[tag |-> "io_error"], [tag |-> "bad_toml"],
     [tag |-> "toml", rules |-> <<>>],
     [tag |-> "toml", rules |-> <<RuleConfig("off", "each", "error", FALSE)>>],
     [tag |-> "toml", rules |-> <<RuleConfig("off", "bad", "error", FALSE),
                                  RuleConfig("warn", "each", "Warning", TRUE)>>],
     [tag |-> "toml", rules |-> <<RuleConfig("style", "twice", "STYLE", TRUE),
                                  RuleConfig("broken", "bad", "info", TRUE)>>]}

\* The extensions of the source paths, "" for a path without one.
Extensions == {"rs", "JSX", "java", "txt", ""}

\* The sources the file system holds.
CliSources == {[lines |-> 100, nodes |-> 1], [lines |-> 1200, nodes |-> 5]}

\* to_ascii_lowercase / to_lowercase on the strings of the model.
ToLower(str) ==
    CASE str = "JSX" -> "jsx"
      [] str = "Warning" -> "warning"
      [] str = "STYLE" -> "style"
      [] OTHER -> str

\* SupportedLanguage::from_path
from_path(extension) ==
    LET ext == ToLower(extension)
    IN  CASE extension = "" -> "None"
          [] ext = "rs" -> "Rust"
          [] ext = "go" -> "Go"
          [] ext \in {"js", "jsx"} -> "JavaScript"
          [] ext = "zig" -> "Zig"
          [] ext = "java" -> "Java"
          [] OTHER -> "None"

\* AnalyzerConfig::from_file and from_str: Err on unreadable or malformed text.
from_file(file) == IF file.tag = "toml" THEN Ok(file.rules) ELSE Err

\* The match on rule_config.severity.to_lowercase()
ParseSeverity(str) ==
    LET sev == ToLower(str)
    IN  CASE sev = "error" -> "Error"
          [] sev = "warning" -> "Warning"
          [] sev = "info" -> "Info"
          [] sev = "style" -> "Style"
          [] OTHER -> "Info"

\* AnalyzerConfig::to_analyzer: add_rule for every enabled rule, in order.
RECURSIVE to_analyzer_from(_, _, _)
to_analyzer_from(config, i, rs) ==
    IF i > Len(config) THEN rs
    ELSE IF ~config[i].enabled THEN to_analyzer_from(config, i + 1, rs)
    ELSE to_analyzer_from(config, i + 1,
            Push(rs, AnalysisRule(config[i].name, config[i].query,
                                  ParseSeverity(config[i].severity), config[i].weight)))

to_analyzer(config) == to_analyzer_from(config, 1, <<>>)

\* has_rules
has_rules(rs) == rs # <<>>

\* format_score_as_json
format_score_as_json(results, score) ==
    [kind |-> "document", score |-> score.overall_score, max_score |-> score.max_score,
     rating |-> score.rating, summary |-> score.summary,
     total_issues |-> score.total_issues, breakdown |-> score.breakdown,
     issues |-> results]

Line(text) == [kind |-> "line", text |-> text]

\* eprintln!(...); process::exit(1)
Fail(diagnostic) ==
    cli' = [cli EXCEPT !.pc = "exited", !.stderr = Append(@, Line(diagnostic)),
                       !.exit = 1]

\* The process is started: the arguments and the files are what they are.
InitCli ==
    /\ rules = <<>>
    /\ last = NoCall
    /\ scored = NoScored
    /\ \E args \in 0..3, exists \in BOOLEAN, extension \in Extensions,
          override \in ConfigFiles, builtin \in ConfigFiles \ {[tag |-> "io_error"]},
          readable \in BOOLEAN, source \in CliSources :
          cli = [pc |-> "args",
                 env |-> [args |-> args, exists |-> exists, extension |-> extension,
                          override |-> override, builtin |-> builtin,
                          readable |-> readable, source |-> source],
                 language |-> "None", analyzer |-> <<>>, config |-> <<>>,
                 read |-> FALSE, analyzed |-> FALSE,
                 stdout |-> <<>>, stderr |-> <<>>, exit |-> -1]

\* if remaining.is_empty() || remaining.len() > 2 { usage(&program); }
CheckArgs ==
    /\ cli.pc = "args"
    /\ IF cli.env.args = 0 \/ cli.env.args > 2
       THEN Fail("Usage")
       ELSE cli' = [cli EXCEPT !.pc = "exists"]
    /\ UNCHANGED <<rules, last, scored>>

\* if !Path::new(&source_path).exists() { ... }
CheckExists ==
    /\ cli.pc = "exists"
    /\ IF ~cli.env.exists
       THEN Fail("Error: file does not exist")
       ELSE cli' = [cli EXCEPT !.pc = "language"]
    /\ UNCHANGED <<rules, last, scored>>

\* SupportedLanguage::from_path(&source_path).unwrap_or_else(...)
CheckLanguage ==
    /\ cli.pc = "language"
    /\ IF from_path(cli.env.extension) = "None"
       THEN Fail("Error: unsupported file extension")
       ELSE cli' = [cli EXCEPT !.pc = "config",
                               !.language = from_path(cli.env.extension)]
    /\ UNCHANGED <<rules, last, scored>>

\* let config = match config_override.as_deref() { ... }: the second argument
\* names the config; without it the embedded config of the language is
\* parsed, and expect panics (exit status 101) if it does not parse.
LoadConfig ==
    /\ cli.pc = "config"
    /\ IF cli.env.args = 2
       THEN IF from_file(cli.env.override).tag = "Err"
            THEN Fail("Error: failed to load config")
            ELSE cli' = [cli EXCEPT !.pc = "rules",
                                    !.config = from_file(cli.env.override).val]
       ELSE IF from_file(cli.env.builtin).tag = "Err"
            THEN cli' = [cli EXCEPT !.pc = "exited", !.exit = 101,
                            !.stderr = Append(@, Line("embedded config should parse"))]
            ELSE cli' = [cli EXCEPT !.pc = "rules",
                                    !.config = from_file(cli.env.builtin).val]
    /\ UNCHANGED <<rules, last, scored>>

\* config.to_analyzer() with the has_rules check left out.
BuildAnalyzerUnchecked ==
    /\ cli.pc = "rules"
    /\ cli' = [cli EXCEPT !.pc = "read", !.analyzer = to_analyzer(cli.config)]
    /\ UNCHANGED <<rules, last, scored>>

\* let analyzer = config.to_analyzer(); if !analyzer.has_rules() { ... }
BuildAnalyzer ==
    /\ cli.pc = "rules"
    /\ IF ~has_rules(to_analyzer(cli.config))
       THEN Fail("Error: config contains no enabled rules")
       ELSE cli' = [cli EXCEPT !.pc = "read", !.analyzer = to_analyzer(cli.config)]
    /\ UNCHANGED <<rules, last, scored>>

\* fs::read_to_string(&source_path).unwrap_or_else(...)
ReadSource ==
    /\ cli.pc = "read"
    /\ IF ~cli.env.readable
       THEN Fail("Error: failed to read")
       ELSE cli' = [cli EXCEPT !.pc = "analyze", !.read = TRUE]
    /\ UNCHANGED <<rules, last, scored>>

\* The three println! of the header, analyze_with_score, and on Ok the
\* println! of the document, after which run returns (exit status 0).
\* to_string_pretty does not fail on a serde_json::Value.
AnalyzeAndPrint ==
    /\ cli.pc = "analyze"
    /\ LET header == <<Line("Analyzing file with custom preferences"),
                       Line("Config"), Line("----------------------------------------")>>
           ret == analyze_with_score(cli.analyzer, cli.env.source)
       IN  IF ret.tag = "Err"
           THEN cli' = [cli EXCEPT !.pc = "exited", !.analyzed = TRUE,
                           !.stdout = @ \o header,
                           !.stderr = Append(@, Line("Error: analysis failed")),
                           !.exit = 1]
           ELSE cli' = [cli EXCEPT !.pc = "exited", !.analyzed = TRUE,
                           !.stdout = @ \o header
                              \o <<format_score_as_json(ret.val.issues, ret.val.score)>>,
                           !.exit = 0]
    /\ UNCHANGED <<rules, last, scored>>

NextCli ==
    \/ CheckArgs
    \/ CheckExists
    \/ CheckLanguage
    \/ LoadConfig
    \/ BuildAnalyzer
    \/ ReadSource
    \/ AnalyzeAndPrint

SpecCli == InitCli /\ [][NextCli]_vars

-----------------------------------------------------------------------------
(* Properties *)

\* analyze_with_score has returned Ok((results, score)).
ScoreReturned == last.op = "analyze_with_score" /\ last.ret.tag = "Ok"
RetIssues == last.ret.val.issues
RetScore == last.ret.val.score
RetLines == last.source.lines

CountOf(issues, sev) == Cardinality({i \in DOMAIN issues : issues[i].severity = sev})
Rule(query, sev, w) == AnalysisRule(<<query, sev, w>>, query, sev, w)

\* C1: whatever the issues, their severities and their weights, and whatever
\* the line count, the overall_score returned is a number from 0 to 10.
C1_ScoreInRange ==
    ScoreReturned =>
        /\ RetScore.overall_score.k = "fin"
        /\ 0 <= RetScore.overall_score.v
        /\ RetScore.overall_score.v <= 1000

\* A score clamped to 0 for a list holding an issue of a negative weight and
\* an issue of a nan weight.
C1_Witness ==
    /\ ScoreReturned
    /\ RetScore.overall_score = Fin(0)
    /\ \E i \in DOMAIN RetIssues : FLt(Fin(0), RetIssues[i].score_impact)
    /\ \E i \in DOMAIN RetIssues : RetIssues[i].score_impact = NaN

\* C2: with the line count fixed, the overall_score of a list with one more
\* issue is never greater than the overall_score of the list.
C2_Monotone ==
    [][FLeq(scored'.score.overall_score, scored.score.overall_score)]_vars

\* A list of two issues, one of them of weight -1.0, scored below 10.
C2_Witness ==
    /\ Len(scored.results) = 2
    /\ \E i \in 1..2 : FLt(Fin(0), scored.results[i].score_impact)
    /\ FLt(scored.score.overall_score, Fin(1000))
    /\ FLt(Fin(0), scored.score.overall_score)

\* C3: overall_score is max(0, 10 - total_deduction / size_factor) rounded to
\* the nearest tenth, total_deduction the sum of the four deduction sums and
\* size_factor 1 + min((line_count - 200) / 1000, 0.3) above 200 lines, 0.9
\* below 50 and 1.0 otherwise; one Error of weight 1.0 at 100 lines gives 7.0
\* and five Style issues of weight 1.0 at 1200 lines give 9.2.
C3_ScoreFormula ==
    ScoreReturned =>
        LET b == RetScore.breakdown
            s == RetScore.overall_score
            sums == {b.error_deduction, b.warning_deduction,
                     b.info_deduction, b.style_deduction}
            D == b.error_deduction.v + b.warning_deduction.v
                    + b.info_deduction.v + b.style_deduction.v
            F == IF RetLines > 200
                 THEN 1000 + (IF RetLines - 200 < 300 THEN RetLines - 200 ELSE 300)
                 ELSE IF RetLines < 50 THEN 900 ELSE 1000
            exact == IF 1000 * F - 1000 * D > 0 THEN 1000 * F - 1000 * D ELSE 0
        IN  /\ s.k = "fin" /\ s.v % 10 = 0
            /\ (\A d \in sums : d.k = "fin") =>
                   /\ s.v * F - exact <= 5 * F
                   /\ exact - s.v * F <= 5 * F
            /\ (\E d \in sums : d = PosInf) /\ (\A d \in sums : d.k # "nan") =>
                   s.v = 0
            /\ rules = <<Rule("each", "Error", Fin(10))>>
                /\ last.source = [lines |-> 100, nodes |-> 1] => s.v = 700
            /\ rules = <<Rule("each", "Style", Fin(10))>>
                /\ last.source = [lines |-> 1200, nodes |-> 5] => s.v = 920

\* Five Style issues of weight 1.0 at 1200 lines, scored 9.2.
C3_Witness ==
    /\ ScoreReturned
    /\ rules = <<Rule("each", "Style", Fin(10))>>
    /\ last.source = [lines |-> 1200, nodes |-> 5]
    /\ Len(RetIssues) = 5
    /\ RetScore.overall_score = Fin(920)

\* C4: every issue's score_impact is -(base magnitude of its rule's severity
\* * its rule's weight), the magnitudes being 3.0, 1.5, 0.4 and 0.2, and is
\* <= 0 for every weight a rule is configured with.
C4_ImpactNonPositive ==
    last.op = "analyze" /\ last.ret.tag = "Ok" =>
        \A i \in DOMAIN last.ret.val :
            LET issue == last.ret.val[i]
                magnitude == CASE issue.severity = "Error" -> 30
                               [] issue.severity = "Warning" -> 15
                               [] issue.severity = "Info" -> 4
                               [] issue.severity = "Style" -> 2
            IN  /\ \E r \in {rules[j] : j \in DOMAIN rules} :
                      /\ r.name = issue.rule_name
                      /\ issue.score_impact = FMul(-1, FMul(magnitude, r.weight_multiplier))
                /\ FLeq(issue.score_impact, Fin(0))

\* C5: the rating is a function of the rounded score that leaves no value
\* 0.0, 0.1, ..., 10.0 out: [9.0,10.0] Excellent, [7.5,8.9] Good, [6.0,7.4]
\* Fair, [4.0,5.9] Poor, [0.0,3.9] Critical; no score falls between two bands.
C5_RatingBands ==
    ScoreReturned =>
        LET s == RetScore.overall_score
            r == RetScore.rating
        IN  /\ s.k = "fin"
            /\ \E t \in 0..100 : s.v = 10 * t
            /\ \/ s.v \in 900..1000 /\ r = "Excellent"
               \/ s.v \in 750..890 /\ r = "Good"
               \/ s.v \in 600..740 /\ r = "Fair"
               \/ s.v \in 400..590 /\ r = "Poor"
               \/ s.v \in 0..390 /\ r = "Critical"

\* A score that lies between 8.9 and 9.0 before it is rounded.
C5_Witness ==
    /\ ScoreReturned
    /\ LET x == OverallScore(total_deduction(RetScore.breakdown), size_factor(RetLines))
       IN  890 * x.d < 100 * x.n /\ 100 * x.n < 900 * x.d
    /\ RetScore.rating \in {"Good", "Excellent"}

\* C6: the summary is that of the first condition that holds among
\* errors > 0 (with the count), warnings > 5, info_issues > 10, score >= 9.0,
\* score >= 7.5, otherwise the improvement notice; six Warning issues of
\* weight 1.0 at 100 lines give 1.0, Critical and the multi-warning summary.
C6_SummaryOrder ==
    ScoreReturned =>
        LET errors == CountOf(RetIssues, "Error")
            warnings == CountOf(RetIssues, "Warning")
            infos == CountOf(RetIssues, "Info")
            s == RetScore.overall_score
            sum == RetScore.summary
        IN  /\ errors > 0 =>
                sum = <<"Code has ", errors, " critical errors that need immediate attention">>
            /\ errors = 0 /\ warnings > 5 =>
                sum = <<"Multiple warnings detected - consider addressing them">>
            /\ errors = 0 /\ warnings <= 5 /\ infos > 10 =>
                sum = <<"Many minor issues found - good opportunity for cleanup">>
            /\ errors = 0 /\ warnings <= 5 /\ infos <= 10 /\ s.v >= 900 =>
                sum = <<"Excellent code quality with minimal issues">>
            /\ errors = 0 /\ warnings <= 5 /\ infos <= 10 /\ s.v >= 750 /\ s.v < 900 =>
                sum = <<"Good code quality with room for minor improvements">>
            /\ errors = 0 /\ warnings <= 5 /\ infos <= 10 /\ s.v < 750 =>
                sum = <<"Code needs improvement in several areas">>
            /\ rules = <<Rule("each", "Warning", Fin(10))>>
                /\ last.source = [lines |-> 100, nodes |-> 6] =>
                    /\ s.v = 100
                    /\ RetScore.rating = "Critical"
                    /\ sum = <<"Multiple warnings detected - consider addressing them">>

\* One Error issue with a score of 7.5 or more: the summary is the error count.
C6_Witness ==
    /\ ScoreReturned
    /\ CountOf(RetIssues, "Error") = 1
    /\ RetScore.overall_score.v >= 750
    /\ RetScore.rating \in {"Good", "Excellent"}
    /\ RetScore.summary[2] = 1

\* C7: total_issues is the length of the issue list and the sum of the four
\* counts of the breakdown, each issue counted in the bucket of its severity.
C7_Counts ==
    ScoreReturned =>
        LET b == RetScore.breakdown
        IN  /\ RetScore.total_issues = Len(RetIssues)
            /\ RetScore.total_issues
                  = b.errors + b.warnings + b.info_issues + b.style_issues
            /\ b.errors = CountOf(RetIssues, "Error")
            /\ b.warnings = CountOf(RetIssues, "Warning")
            /\ b.info_issues = CountOf(RetIssues, "Info")
            /\ b.style_issues = CountOf(RetIssues, "Style")

\* A list with issues of two severities, one of them Style.
C7_Witness ==
    /\ ScoreReturned
    /\ RetScore.breakdown.style_issues > 0
    /\ RetScore.breakdown.info_issues > 0
    /\ RetScore.total_issues > 10

\* C8: size_bonus is 0 up to 200 lines; the leniency is at most 0.3, so
\* size_factor is at most 1.3 and size_bonus at most 0.3 * (info_deduction +
\* style_deduction), however many lines there are.
C8_SizeBonus ==
    ScoreReturned =>
        LET b == RetScore.breakdown
            low == FAdd(b.info_deduction, b.style_deduction)
        IN  /\ RetLines <= 200 => b.size_bonus = Fin(0)
            /\ FLt(Fin(0), b.size_bonus) => RetLines > 200
            /\ ~FLt(FMul(300, low), b.size_bonus)
            /\ RetLines > 200 => Leniency(RetLines) <= 300
            /\ size_factor(RetLines) <= 1300

\* At 1200 lines a positive size_bonus that is 0.3 * (info_deduction +
\* style_deduction).
C8_Witness ==
    /\ ScoreReturned
    /\ RetLines = 1200
    /\ FLt(Fin(0), RetScore.breakdown.size_bonus)
    /\ RetScore.breakdown.size_bonus
          = FMul(300, FAdd(RetScore.breakdown.info_deduction,
                           RetScore.breakdown.style_deduction))

\* An analysis call has returned.
Returned == last.op \in {"analyze", "analyze_with_score"}
BadRule(r) == QueryNew(r.query).tag = "Err"

\* C9: when the query of a rule is malformed, wherever the rule stands in the
\* rule set, analyze and analyze_with_score return an error that carries no
\* issue and no score.
C9_BadRuleAborts ==
    Returned /\ (\E j \in DOMAIN rules : BadRule(rules[j])) =>
        /\ last.ret.tag = "Err"
        /\ DOMAIN last.ret = {"tag"}

\* An error returned when the malformed rule comes after a rule that matched.
C9_Witness ==
    /\ Returned
    /\ Len(rules) = 2
    /\ ~BadRule(rules[1])
    /\ Len(Matches(rules[1].query, last.source)) > 0
    /\ BadRule(rules[2])
    /\ last.ret.tag = "Err"

\* The issues one rule yields: its matches in the engine's order, and within
\* a match its captures in the engine's order.
RECURSIVE Flatten(_)
Flatten(seqs) == IF seqs = <<>> THEN <<>> ELSE Head(seqs) \o Flatten(Tail(seqs))

IssuesOfRule(r, src) ==
    LET nodes == Flatten(Matches(r.query, src))
    IN  [n \in 1..Len(nodes) |->
            [rule_name |-> r.name, severity |-> r.severity, node |-> nodes[n]]]

\* What an issue list shows of the rules and nodes it came from.
Shown(issues) ==
    [n \in 1..Len(issues) |->
        [rule_name |-> issues[n].rule_name, severity |-> issues[n].severity,
         node |-> issues[n].text]]

RetList == IF last.op = "analyze" THEN last.ret.val ELSE last.ret.val.issues

\* C10: the issue list holds one issue per captured node of every match of
\* every rule, by rule in the order of add_rule and within a rule in the
\* order the engine yields matches and captures; no issue is dropped as a
\* duplicate and the list is not sorted by position.
C10_IssueOrder ==
    /\ [][rules' # rules => \E r \in RuleCatalogue : rules' = rules \o <<r>>]_vars
    /\ [](Returned /\ last.ret.tag = "Ok" =>
            /\ Shown(RetList)
                  = Flatten([j \in 1..Len(rules) |->
                                IssuesOfRule(rules[j], last.source)])
            /\ \A n \in DOMAIN RetList : RetList[n].line = RetList[n].text)

\* A list in which a node captured twice stands twice, and in which a later
\* issue stands on an earlier line.
C10_Witness ==
    /\ Returned /\ last.ret.tag = "Ok"
    /\ Len(rules) = 2
    /\ rules[1].query = "rev"
    /\ rules[2].query = "twice"
    /\ \E n \in DOMAIN RetList : n + 1 \in DOMAIN RetList
          /\ RetList[n].line > RetList[n + 1].line
    /\ \E n \in DOMAIN RetList : n + 1 \in DOMAIN RetList
          /\ RetList[n] = RetList[n + 1]

C13_LinesMonotone ==
    [][scored'.results = scored.results
          /\ scored'.source.lines >= scored.source.lines
       => FLeq(scored.score.overall_score, scored'.score.overall_score)]_vars

\* A list scored at 1200 lines above its score at 350 lines, that above its
\* score at 100 lines, and that above its score at 49 lines.
C13_Witness ==
    /\ Len(scored.results) > 0
    /\ scored.source.lines = 1200
    /\ LET at(lc) == calculate_score(scored.results, [lines |-> lc, nodes |-> 1]).overall_score
       IN  /\ FLt(at(49), at(100))
           /\ FLt(at(100), at(350))
           /\ FLt(at(350), scored.score.overall_score)

\* C14: above 200 lines the size adjustment lowers the deduction by the
\* recorded size_bonus, leniency * (info_deduction + style_deduction):
\* total_deduction - adjusted_deduction = size_bonus, so a list of Error and
\* Warning issues only is scored as with size_factor 1.0.  Stated for the
\* lists whose issues all have a score_impact <= 0.
C14_BonusIsReduction ==
    ScoreReturned /\ RetLines > 200
        /\ (\A i \in DOMAIN RetIssues : FLeq(RetIssues[i].score_impact, Fin(0))) =>
        LET b == RetScore.breakdown
            s == RetScore.overall_score
            sums == {b.error_deduction, b.warning_deduction,
                     b.info_deduction, b.style_deduction}
            D == b.error_deduction.v + b.warning_deduction.v
                    + b.info_deduction.v + b.style_deduction.v
            F == size_factor(RetLines)
            unadjusted == IF 1000 - D > 0 THEN 1000 - D ELSE 0
        IN  (\A d \in sums : d.k = "fin") =>
                /\ b.size_bonus.v = (F - 1000) * (b.info_deduction.v + b.style_deduction.v)
                /\ 1000 * D * (F - 1000) = b.size_bonus.v * F
                /\ b.info_deduction.v + b.style_deduction.v = 0 =>
                      /\ s.v - unadjusted <= 5
                      /\ unadjusted - s.v <= 5

\* The config the run uses, and the first check of the run that its inputs
\* fail, named by its diagnostic ("none" when they pass every check).
CliConfig == IF cli.env.args = 2 THEN cli.env.override ELSE cli.env.builtin
CliEnabled == {i \in DOMAIN CliConfig.rules : CliConfig.rules[i].enabled}
FirstFailure ==
    CASE cli.env.args \notin {1, 2} -> "Usage"
      [] ~cli.env.exists -> "Error: file does not exist"
      [] cli.env.extension \notin {"rs", "JSX", "java"} ->
            "Error: unsupported file extension"
      [] CliConfig.tag # "toml" ->
            IF cli.env.args = 2 THEN "Error: failed to load config"
            ELSE "embedded config should parse"
      [] CliEnabled = {} -> "Error: config contains no enabled rules"
      [] ~cli.env.readable -> "Error: failed to read"
      [] \E i \in CliEnabled : CliConfig.rules[i].query = "bad" ->
            "Error: analysis failed"
      [] OTHER -> "none"
DocumentPrinted == \E i \in DOMAIN cli.stdout : cli.stdout[i].kind = "document"

\* C12: a run prints the result document only on success.  On a missing
\* file, an unsupported extension, an unparseable config, a config with no
\* enabled rules, an unreadable source or a failed analysis it exits with a
\* non-zero status after one diagnostic and prints no document; the checks
\* come in that order, and the source is neither read nor analyzed when an
\* earlier check fails.
C12_DocumentOnlyOnSuccess ==
    /\ DocumentPrinted =>
          FirstFailure = "none" /\ cli.pc = "exited" /\ cli.exit = 0
    /\ cli.pc # "exited" => cli.exit = -1 /\ cli.stderr = <<>>
    /\ cli.pc = "exited" /\ FirstFailure # "none" =>
          /\ cli.exit > 0
          /\ cli.stderr = <<[kind |-> "line", text |-> FirstFailure]>>
          /\ ~DocumentPrinted
    /\ cli.pc = "exited" /\ FirstFailure = "none" =>
          cli.exit = 0 /\ DocumentPrinted /\ cli.stderr = <<>>
    /\ cli.read => FirstFailure \in {"none", "Error: analysis failed"}
    /\ cli.analyzed => cli.read

\* A run on a config without enabled rules and an unreadable source: it has
\* exited on the config, without reading the source.
C12_Witness ==
    /\ cli.pc = "exited"
    /\ cli.env.args = 2
    /\ CliConfig.tag = "toml" /\ CliConfig.rules # <<>> /\ CliEnabled = {}
    /\ ~cli.env.readable
    /\ cli.exit = 1
    /\ cli.stderr = <<[kind |-> "line", text |-> "Error: config contains no enabled rules"]>>
    /\ ~cli.read /\ ~cli.analyzed /\ cli.stdout = <<>>

====
